---- MODULE Spec2Model ----
(***************************************************************************)
(* A model of core/pydis/util/Util_subset.c (OpenDiS / ParaDiS utility     *)
(* layer): segment ownership arbitration (DomainOwnsSeg), tag resolution   *)
(* (GetNodeFromTag), the operation list sent to remote domains (AddOp,     *)
(* ClearOpList, ExtendOpList, FreeOpList, InitOpList), neighbour lookup     *)
(* (GetNeighborNode) and the force / glide-plane maintenance routines      *)
(* (ResetSegForces, MarkNodeForceObsolete, RecalcSegGlidePlane).           *)
(*                                                                         *)
(* C arrays are modelled as functions over 0..n-1, C structs as records,   *)
(* node pointers as node identifiers (NULL is the identifier 0), real8     *)
(* values as integers (exact arithmetic).                                  *)
(***************************************************************************)
EXTENDS Integers, Sequences, FiniteSets, TLC

VARIABLES
    status,            \* "running", or "fatal" once Fatal() has ended the process
    cycle,             \* home->cycle
    ownCall,           \* the last call of DomainOwnsSeg and what it gave
    opList,            \* home->opList, the allocated buffer (0..OpListLen-1)
    OpCount,           \* home->OpCount
    OpListLen,         \* home->OpListLen
    appended,          \* history: the entries handed to AddOp since the list was last empty
    logOps,            \* history: the names of the last two operation-list calls
    cleared,           \* history: ClearOpList has run since InitOpList
    storage,           \* the block home->opList points at: "allocated", "released", or
                       \* "corrupt" once a released block was used and the process went on
    heapCall,          \* the last operation-list call and its uses of that block
    myDomain,          \* home->myDomain
    newNodeKeyPtr,     \* home->newNodeKeyPtr
    nodeKeys,          \* home->nodeKeys
    remoteDomainKeys,  \* home->remoteDomainKeys
    tagCall,           \* the last call of GetNodeFromTag and what it gave
    node,              \* the Node_t structures, by node identifier
    param,             \* home->param (box lengths and boundary types)
    nodeCall           \* the last call of a node routine (ResetSegForces, MarkNodeForceObsolete,
                       \* RecalcSegGlidePlane, GetNeighborNode) and what it did

vars == <<status, cycle, ownCall, opList, OpCount, OpListLen, appended, logOps, cleared,
          storage, heapCall, myDomain, newNodeKeyPtr, nodeKeys, remoteDomainKeys, tagCall,
          node, param, nodeCall>>

ownVars  == <<cycle, ownCall>>
logVars  == <<opList, OpCount, OpListLen, appended, logOps, cleared, storage, heapCall>>
homeVars == <<myDomain, newNodeKeyPtr, nodeKeys, remoteDomainKeys>>
nodeVars == <<node, param, nodeCall>>

(***************************************************************************)
(* Bounds of the model.                                                    *)
(***************************************************************************)
MaxDomain == 5         \* DomainOwnsSeg is tried on the domains 0..MaxDomain
MaxCycle  == 5         \* home->cycle runs over 0..MaxCycle
CycleBits == 3         \* width of home->cycle (an int) where the counter runs on for ever

(***************************************************************************)
(* Tags.                                                                   *)
(***************************************************************************)
Tag(d, i) == [domainID |-> d, index |-> i]

(***************************************************************************)
(* Operation classes.  The three valid classes are the case labels of      *)
(* DomainOwnsSeg; every other integer takes the default branch.            *)
(***************************************************************************)
OPCLASS_SEPARATION == 1
OPCLASS_COLLISION  == 2
OPCLASS_REMESH     == 3

ValidOpClasses == {OPCLASS_SEPARATION, OPCLASS_COLLISION, OPCLASS_REMESH}
OpClassInputs  == 0 .. 4
OwnDomains     == 0 .. MaxDomain
OwnIndices     == 0 .. 1

\* home->cycle & 0x01
CycleIsOdd(cyc) == cyc % 2 = 1

\* The C comparison results (thisDomain > endTag->domainID) as int.
BoolToInt(b) == IF b THEN 1 ELSE 0

Returned(v) == [fatal |-> FALSE, ret |-> v]
FatalExit   == [fatal |-> TRUE]

\* A slip in the remesh branch: the odd-cycle assignment is missing, so the
\* initial value ownsSeg = 1 is returned.
DomainOwnsSeg_RemeshOddUnset(cyc, opClass, thisDomain, endTag) ==
    IF thisDomain = endTag.domainID THEN Returned(1)
    ELSE IF opClass \in {OPCLASS_SEPARATION, OPCLASS_COLLISION}
         THEN IF CycleIsOdd(cyc)
              THEN Returned(BoolToInt(thisDomain > endTag.domainID))
              ELSE Returned(BoolToInt(thisDomain < endTag.domainID))
    ELSE IF opClass = OPCLASS_REMESH
         THEN IF CycleIsOdd(cyc)
              THEN Returned(1)
              ELSE Returned(BoolToInt(thisDomain > endTag.domainID))
    ELSE FatalExit

\* A slip in the remesh branch: it repeats the collision rule instead of
\* reversing it.
DomainOwnsSeg_RemeshAsCollision(cyc, opClass, thisDomain, endTag) ==
    IF thisDomain = endTag.domainID THEN Returned(1)
    ELSE IF opClass \in ValidOpClasses
         THEN IF CycleIsOdd(cyc)
              THEN Returned(BoolToInt(thisDomain > endTag.domainID))
              ELSE Returned(BoolToInt(thisDomain < endTag.domainID))
    ELSE FatalExit

\* A slip in the parity test: the branches for odd and even cycles are swapped.
DomainOwnsSeg_ParitySwapped(cyc, opClass, thisDomain, endTag) ==
    IF thisDomain = endTag.domainID THEN Returned(1)
    ELSE IF opClass \in {OPCLASS_SEPARATION, OPCLASS_COLLISION}
         THEN IF ~CycleIsOdd(cyc)
              THEN Returned(BoolToInt(thisDomain > endTag.domainID))
              ELSE Returned(BoolToInt(thisDomain < endTag.domainID))
    ELSE IF opClass = OPCLASS_REMESH
         THEN IF ~CycleIsOdd(cyc)
              THEN Returned(BoolToInt(thisDomain < endTag.domainID))
              ELSE Returned(BoolToInt(thisDomain > endTag.domainID))
    ELSE FatalExit

\* A slip in the parity test: bit 1 of the cycle counter is tested
\* (home->cycle & 0x02) instead of bit 0.
DomainOwnsSeg_WrongBit(cyc, opClass, thisDomain, endTag) ==
    IF thisDomain = endTag.domainID THEN Returned(1)
    ELSE IF opClass \in {OPCLASS_SEPARATION, OPCLASS_COLLISION}
         THEN IF (cyc \div 2) % 2 = 1
              THEN Returned(BoolToInt(thisDomain > endTag.domainID))
              ELSE Returned(BoolToInt(thisDomain < endTag.domainID))
    ELSE IF opClass = OPCLASS_REMESH
         THEN IF (cyc \div 2) % 2 = 1
              THEN Returned(BoolToInt(thisDomain < endTag.domainID))
              ELSE Returned(BoolToInt(thisDomain > endTag.domainID))
    ELSE FatalExit

\* A slip in the default branch: no Fatal(), the initial ownsSeg = 1 is returned.
DomainOwnsSeg_NoFatal(cyc, opClass, thisDomain, endTag) ==
    IF thisDomain = endTag.domainID THEN Returned(1)
    ELSE IF opClass \in {OPCLASS_SEPARATION, OPCLASS_COLLISION}
         THEN IF CycleIsOdd(cyc)
              THEN Returned(BoolToInt(thisDomain > endTag.domainID))
              ELSE Returned(BoolToInt(thisDomain < endTag.domainID))
    ELSE IF opClass = OPCLASS_REMESH
         THEN IF CycleIsOdd(cyc)
              THEN Returned(BoolToInt(thisDomain < endTag.domainID))
              ELSE Returned(BoolToInt(thisDomain > endTag.domainID))
    ELSE Returned(1)

\* DomainOwnsSeg(home, opClass, thisDomain, endTag) with home->cycle = cyc:
\* what the call gives, a returned int or the end of the process in Fatal().
DomainOwnsSeg(cyc, opClass, thisDomain, endTag) ==
    IF thisDomain = endTag.domainID THEN Returned(1)
    ELSE IF opClass \in {OPCLASS_SEPARATION, OPCLASS_COLLISION}
         THEN IF CycleIsOdd(cyc)
              THEN Returned(BoolToInt(thisDomain > endTag.domainID))
              ELSE Returned(BoolToInt(thisDomain < endTag.domainID))
    ELSE IF opClass = OPCLASS_REMESH
         THEN IF CycleIsOdd(cyc)
              THEN Returned(BoolToInt(thisDomain < endTag.domainID))
              ELSE Returned(BoolToInt(thisDomain > endTag.domainID))
    ELSE FatalExit

NoCall == [called |-> FALSE]

\* One call of DomainOwnsSeg by the running process.
CallDomainOwnsSeg(opClass, thisDomain, endTag) ==
    /\ status = "running"
    /\ LET res == DomainOwnsSeg(cycle, opClass, thisDomain, endTag) IN
         /\ ownCall' = [called |-> TRUE, opClass |-> opClass,
                        thisDomain |-> thisDomain, endTag |-> endTag,
                        cycle |-> cycle, res |-> res]
         /\ status' = IF res.fatal THEN "fatal" ELSE status
    /\ UNCHANGED <<cycle, logVars, homeVars, tagCall, nodeVars>>

\* The simulation step of the caller: home->cycle++ once per global step.
AdvanceCycle ==
    /\ status = "running"
    /\ cycle < MaxCycle
    /\ cycle' = cycle + 1
    /\ UNCHANGED <<status, ownCall, logVars, homeVars, tagCall, nodeVars>>

\* An int of CycleBits bits in two's complement: the value k wrapped into
\* -2^(CycleBits-1) .. 2^(CycleBits-1)-1.
WrapInt(k) == ((k + 2^(CycleBits - 1)) % 2^CycleBits) - 2^(CycleBits - 1)

\* The simulation step in a run that never ends: home->cycle++ on the int
\* home->cycle, which wraps from its largest to its smallest value.
StepCycle ==
    /\ status = "running"
    /\ cycle' = WrapInt(cycle + 1)
    /\ UNCHANGED <<status, ownCall, logVars, homeVars, tagCall, nodeVars>>

(***************************************************************************)
(* The operation list (Operate_t entries sent to remote domains).          *)
(***************************************************************************)
OpBlock_Count == 2     \* entries per allocation block (the header's value, scaled down)
MaxBlocks     == 3     \* the list grows to at most MaxBlocks blocks

RESET_SEG_FORCES     == 6
MARK_FORCES_OBSOLETE == 8

\* An Operate_t, field by field.
MkOp(type, dom1, idx1, dom2, idx2, dom3, idx3, b, p, n) ==
    [type |-> type, dom1 |-> dom1, idx1 |-> idx1, dom2 |-> dom2, idx2 |-> idx2,
     dom3 |-> dom3, idx3 |-> idx3,
     bx |-> b[1], by |-> b[2], bz |-> b[3],
     x  |-> p[1], y  |-> p[2], z  |-> p[3],
     nx |-> n[1], ny |-> n[2], nz |-> n[3]]

Zero3 == <<0, 0, 0>>

\* What memset(.., 0, ..) leaves in an entry.
ZeroOp == MkOp(0, 0, 0, 0, 0, 0, 0, Zero3, Zero3, Zero3)

\* Argument lists given to AddOp: a force reset and an entry using every field.
OpInputs ==
    { MkOp(RESET_SEG_FORCES, 0, 3, 1, 7, -1, -1, Zero3, <<4, 5, 6>>, Zero3),
      MkOp(1, 2, 11, 3, 12, 4, 13, <<21, 22, 23>>, <<24, 25, 26>>, <<27, 28, 29>>) }

\* What malloc / realloc may leave in storage that was never written.
JunkOp == MkOp(9, 90, 91, 92, 93, 94, 95, <<96, 97, 98>>, <<99, 100, 101>>, <<102, 103, 104>>)
Uninitialized == {ZeroOp, JunkOp}
FreshBlocks == [0 .. OpBlock_Count - 1 -> Uninitialized]

\* The three fields of home that make up the list.
Log(list, count, len) == [opList |-> list, OpCount |-> count, OpListLen |-> len]

\* A slip: the list is allocated anew (malloc) instead of realloc'ed, so the
\* old entries are not carried over.
ExtendOpList_NoCopy(L, fresh) ==
    Log([i \in 0 .. L.OpListLen + OpBlock_Count - 1 |-> fresh[i % OpBlock_Count]],
        L.OpCount, L.OpListLen + OpBlock_Count)

\* ExtendOpList: realloc to OpListLen+OpBlock_Count entries; the old entries are
\* kept, the new tail holds whatever the allocator left there (fresh).
ExtendOpList(L, fresh) ==
    Log([i \in 0 .. L.OpListLen + OpBlock_Count - 1 |->
            IF i < L.OpListLen THEN L.opList[i] ELSE fresh[i - L.OpListLen]],
        L.OpCount, L.OpListLen + OpBlock_Count)

\* A slip in the test for a full list: OpCount > OpListLen, so the list
\* grows one call too late and the entry goes to opList[OpListLen], past the
\* end of the block (the block itself is left as it is).
AddOp_GrowLate(L, a, fresh) ==
    LET G  == IF L.OpCount > L.OpListLen THEN ExtendOpList(L, fresh) ELSE L
        op == [type |-> a.type,
               dom1 |-> a.dom1, idx1 |-> a.idx1,
               dom2 |-> a.dom2, idx2 |-> a.idx2,
               dom3 |-> a.dom3, idx3 |-> a.idx3,
               bx |-> a.bx, by |-> a.by, bz |-> a.bz,
               x  |-> a.x,  y  |-> a.y,  z  |-> a.z,
               nx |-> a.nx, ny |-> a.ny, nz |-> a.nz]
    IN  Log([i \in DOMAIN G.opList |-> IF i = G.OpCount THEN op ELSE G.opList[i]],
            G.OpCount + 1, G.OpListLen)

\* AddOp: grow if full, then write the sixteen fields at opList[OpCount].
AddOp(L, a, fresh) ==
    LET G  == IF L.OpCount >= L.OpListLen THEN ExtendOpList(L, fresh) ELSE L
        op == [type |-> a.type,
               dom1 |-> a.dom1, idx1 |-> a.idx1,
               dom2 |-> a.dom2, idx2 |-> a.idx2,
               dom3 |-> a.dom3, idx3 |-> a.idx3,
               bx |-> a.bx, by |-> a.by, bz |-> a.bz,
               x  |-> a.x,  y  |-> a.y,  z  |-> a.z,
               nx |-> a.nx, ny |-> a.ny, nz |-> a.nz]
    IN  Log([G.opList EXCEPT ![G.OpCount] = op], G.OpCount + 1, G.OpListLen)

\* A slip: the storage is zeroed but the count is left as it was.
ClearOpList_KeepCount(L) ==
    Log([i \in 0 .. L.OpListLen - 1 |-> ZeroOp], L.OpCount, L.OpListLen)

\* ClearOpList: memset of the OpListLen entries, OpCount = 0.
ClearOpList(L) ==
    Log([i \in 0 .. L.OpListLen - 1 |-> ZeroOp], 0, L.OpListLen)

\* InitOpList: malloc of one block (not zeroed), OpCount = 0.
InitOpList(fresh) ==
    Log([i \in 0 .. OpBlock_Count - 1 |-> fresh[i]], 0, OpBlock_Count)

\* FreeOpList: free(home->opList), OpCount = 0, OpListLen = 0.  The pointer
\* keeps its value; no entry of the released block can be read any more.
FreeOpList(L) == Log([i \in 0 .. -1 |-> ZeroOp], 0, 0)

HomeLog == Log(opList, OpCount, OpListLen)

\* One use of the block home->opList points at: what is done with it (op:
\* "malloc", "realloc", "free" or "write") and the state the block is in then.
Use(op, on) == [op |-> op, on |-> on]

\* What realloc returns for a block in state st: a valid block for an
\* allocated one; for a released one a block that is still on the
\* allocator's free list, in a heap that is no longer consistent.
Reallocated(st) == IF st = "allocated" THEN "allocated" ELSE "corrupt"

\* The uses made by AddOp on the list L whose block is in state st: the
\* realloc of ExtendOpList if the list is full, then the store of the entry
\* (into the block realloc returned, if it was called).
AddOpUses(L, st) ==
    IF L.OpCount >= L.OpListLen
    THEN {Use("realloc", st), Use("write", Reallocated(st))}
    ELSE {Use("write", st)}

\* memset of OpListLen entries: no byte is written when OpListLen is 0.
ClearOpListUses(L, st) == IF L.OpListLen > 0 THEN {Use("write", st)} ELSE {}

\* Handing a released block to free or realloc, or storing into it, is
\* undefined: the process is ended by the allocator, or it goes on with a
\* heap whose bookkeeping is damaged.  From then on every call of malloc,
\* realloc or free and every store into the list is undefined as well: the
\* allocator may end the process in any later call.
Undefined(uses) ==
    \E u \in uses : (u.on = "released" /\ u.op # "malloc") \/ u.on = "corrupt"

\* The allocator calls and stores of one call.  A heap that was damaged
\* stays damaged whatever is called afterwards.
HeapStep(fn, uses, after) ==
    /\ heapCall' = [called |-> TRUE, fn |-> fn, uses |-> uses]
    /\ storage' = IF Undefined(uses) \/ storage = "corrupt" THEN "corrupt" ELSE after
    /\ status' \in IF Undefined(uses) THEN {"running", "crashed"} ELSE {status}

SetLog(L) ==
    /\ opList' = L.opList
    /\ OpCount' = L.OpCount
    /\ OpListLen' = L.OpListLen

Last2(ops, name) == IF Len(ops) < 2 THEN Append(ops, name) ELSE <<ops[2], name>>

\* The list may grow by one more block within the bound of the model.
CanGrow == OpListLen + OpBlock_Count <= MaxBlocks * OpBlock_Count

CallAddOp(a, fresh) ==
    /\ status = "running"
    /\ OpCount < OpListLen \/ CanGrow
    /\ SetLog(AddOp(HomeLog, a, fresh))
    /\ HeapStep("AddOp", AddOpUses(HomeLog, storage),
                IF OpCount >= OpListLen THEN Reallocated(storage) ELSE storage)
    /\ appended' = Append(appended, a)
    /\ logOps' = Last2(logOps, "AddOp")
    /\ cleared' = cleared
    /\ UNCHANGED <<ownVars, homeVars, tagCall, nodeVars>>

CallExtendOpList(fresh) ==
    /\ status = "running"
    /\ CanGrow
    /\ SetLog(ExtendOpList(HomeLog, fresh))
    /\ HeapStep("ExtendOpList", {Use("realloc", storage)}, Reallocated(storage))
    /\ appended' = appended
    /\ logOps' = Last2(logOps, "ExtendOpList")
    /\ cleared' = cleared
    /\ UNCHANGED <<ownVars, homeVars, tagCall, nodeVars>>

CallClearOpList ==
    /\ status = "running"
    /\ SetLog(ClearOpList(HomeLog))
    /\ HeapStep("ClearOpList", ClearOpListUses(HomeLog, storage), storage)
    /\ appended' = <<>>
    /\ logOps' = Last2(logOps, "ClearOpList")
    /\ cleared' = TRUE
    /\ UNCHANGED <<ownVars, homeVars, tagCall, nodeVars>>

CallFreeOpList ==
    /\ status = "running"
    /\ SetLog(FreeOpList(HomeLog))
    /\ HeapStep("FreeOpList", {Use("free", storage)}, "released")
    /\ appended' = <<>>
    /\ logOps' = Last2(logOps, "FreeOpList")
    /\ cleared' = TRUE
    /\ UNCHANGED <<ownVars, homeVars, tagCall, nodeVars>>

\* InitOpList called again: home->opList is overwritten with a new block (the
\* block it pointed at is not handed to the allocator).
CallInitOpList(fresh) ==
    /\ status = "running"
    /\ SetLog(InitOpList(fresh))
    /\ HeapStep("InitOpList", {Use("malloc", storage)}, "allocated")
    /\ appended' = <<>>
    /\ logOps' = Last2(logOps, "InitOpList")
    /\ cleared' = FALSE
    /\ UNCHANGED <<ownVars, homeVars, tagCall, nodeVars>>

(***************************************************************************)
(* Tag resolution: the local node table and the remote-domain caches.      *)
(***************************************************************************)
NumDomains == 3        \* home->numDomains: the domains are 0..NumDomains-1
MaxIndex   == 1        \* tag indices of existing nodes run over 0..MaxIndex

NULL == 0              \* (Node_t *)NULL

\* (RemoteDomain_t *)NULL: the domain has no cache.
NoRemoteDomain == [allocated |-> FALSE]

Domains == 0 .. NumDomains - 1

\* The node structure with tag (d, i) is identified by a positive number.
NodeIdOf(d, i) == 1 + d * (MaxIndex + 1) + i
TagNodeIds == {NodeIdOf(d, i) : d \in Domains, i \in 0 .. MaxIndex}

\* home, as far as GetNodeFromTag reads it.
Home == [myDomain |-> myDomain, newNodeKeyPtr |-> newNodeKeyPtr,
         nodeKeys |-> nodeKeys, remoteDomainKeys |-> remoteDomainKeys]

\* A slip: the local lookup aborts when the node is not found (what the
\* header comment of the function announces).
GetNodeFromTag_FatalOnMissingLocal(H, tag) ==
    IF tag.domainID < 0 \/ tag.index < 0 THEN FatalExit
    ELSE IF tag.domainID = H.myDomain
    THEN IF tag.index >= H.newNodeKeyPtr THEN FatalExit
         ELSE IF H.nodeKeys[tag.index] = NULL THEN FatalExit
         ELSE Returned(H.nodeKeys[tag.index])
    ELSE LET remDom == H.remoteDomainKeys[tag.domainID] IN
         IF ~remDom.allocated THEN Returned(NULL)
         ELSE IF tag.index >= remDom.maxTagIndex THEN Returned(NULL)
         ELSE Returned(remDom.nodeKeys[tag.index])

\* GetNodeFromTag(home, tag): the node identifier returned (NULL for none),
\* or the end of the process in Fatal().
GetNodeFromTag(H, tag) ==
    IF tag.domainID < 0 \/ tag.index < 0 THEN FatalExit
    ELSE IF tag.domainID = H.myDomain
    THEN IF tag.index >= H.newNodeKeyPtr THEN Returned(NULL)
         ELSE IF H.nodeKeys[tag.index] = NULL THEN Returned(NULL)
         ELSE Returned(H.nodeKeys[tag.index])
    ELSE LET remDom == H.remoteDomainKeys[tag.domainID] IN
         IF ~remDom.allocated THEN Returned(NULL)
         ELSE IF tag.index >= remDom.maxTagIndex THEN Returned(NULL)
         ELSE Returned(remDom.nodeKeys[tag.index])

\* Tags handed to GetNodeFromTag: every domain of the run and the invalid
\* domain -1, every index up to one past MaxIndex and the invalid index -1.
TagInputs == {Tag(d, i) : d \in -1 .. NumDomains - 1, i \in -1 .. MaxIndex + 1}

CallGetNodeFromTag(tag) ==
    /\ status = "running"
    /\ LET res == GetNodeFromTag(Home, tag) IN
         /\ tagCall' = [called |-> TRUE, tag |-> tag, res |-> res]
         /\ status' = IF res.fatal THEN "fatal" ELSE status
    /\ UNCHANGED <<ownVars, logVars, homeVars, nodeVars>>

\* The local table: newNodeKeyPtr is one past the highest index handed out;
\* a slot below it holds its node or NULL (a freed node), and the slots from
\* it on were never used.
LocalKeys(dom, ptr, present) ==
    [i \in 0 .. MaxIndex |->
        IF i < ptr /\ i \in present THEN NodeIdOf(dom, i) ELSE NULL]

\* The cache of one remote domain: maxTagIndex is the highest index seen from
\* that domain, and nodeKeys maps the indices 0..maxTagIndex to the cached
\* node or to NULL.
RemoteDomain(dom, m, present) ==
    [allocated |-> TRUE, maxTagIndex |-> m,
     nodeKeys |-> [i \in 0 .. m |-> IF i \in present THEN NodeIdOf(dom, i) ELSE NULL]]

RemoteDomains(dom) ==
    {RemoteDomain(dom, m, present) : m \in 0 .. MaxIndex, present \in SUBSET (0 .. MaxIndex)}

\* home->remoteDomainKeys: no domain contacted, or one domain with a cache.
RemoteKeyTables(me) ==
    {[d \in Domains |-> NoRemoteDomain]}
    \cup UNION {{[d \in Domains |-> IF d = c THEN r ELSE NoRemoteDomain] : r \in RemoteDomains(c)} :
                  c \in Domains \ {me}}

(***************************************************************************)
(* Vector helpers.  A real8 that is a whole number is an integer; a unit   *)
(* vector v/|v| of an integer vector v is kept exactly as the pair         *)
(* [v, d] standing for v/sqrt(d), and one component of it as the           *)
(* canonical triple [s, p, q] standing for s*sqrt(p/q).                    *)
(***************************************************************************)
RECURSIVE GCD(_, _)
GCD(a, b) == IF b = 0 THEN a ELSE GCD(b, a % b)

Sgn(k) == IF k > 0 THEN 1 ELSE IF k < 0 THEN -1 ELSE 0

\* The real number num/sqrt(den2), den2 > 0, in canonical form.
SqrtRatio(num, den2) ==
    IF num = 0 THEN [s |-> 0, p |-> 0, q |-> 1]
    ELSE LET g == GCD(num * num, den2)
         IN  [s |-> Sgn(num), p |-> (num * num) \div g, q |-> den2 \div g]

IntReal(k) == SqrtRatio(k, 1)

Dot3(a, b) == a[1] * b[1] + a[2] * b[2] + a[3] * b[3]

\* cross(a, b, c): c = a x b.
cross(a, b) ==
    << a[2] * b[3] - a[3] * b[2],
       a[3] * b[1] - a[1] * b[3],
       a[1] * b[2] - a[2] * b[1] >>

\* NormalizeVec(vec) on a whole-number vector: vec/sqrt(vec.vec) if nonzero.
NormalizeVec(vec) ==
    LET a2 == Dot3(vec, vec)
    IN  IF a2 > 0 THEN [v |-> vec, d |-> a2] ELSE [v |-> vec, d |-> 1]

\* Normalize(&ax, &ay, &az) on the vector a.v/sqrt(a.d): a2 = (a.v . a.v)/a.d,
\* and the components divided by sqrt(a2) are a.v/sqrt(a.v . a.v).
Normalize(a) ==
    LET n2 == Dot3(a.v, a.v)
    IN  IF n2 > 0 THEN [v |-> a.v, d |-> n2] ELSE a

\* rint(n/d) for d > 0: the nearest integer, halves to the even one.
RInt(n, d) ==
    LET q == n \div d
        r == n % d
    IN  IF 2 * r < d THEN q
        ELSE IF 2 * r > d THEN q + 1
        ELSE IF q % 2 = 0 THEN q ELSE q + 1

\* ZImage(param, &x, &y, &z): the minimum image of a vector (invLx = 1/Lx).
ZImage(P, vec) ==
    << IF P.xBoundType = "Periodic" THEN vec[1] - RInt(vec[1], P.Lx) * P.Lx ELSE vec[1],
       IF P.yBoundType = "Periodic" THEN vec[2] - RInt(vec[2], P.Ly) * P.Ly ELSE vec[2],
       IF P.zBoundType = "Periodic" THEN vec[3] - RInt(vec[3], P.Lz) * P.Lz ELSE vec[3] >>

\* FindPreciseGlidePlane(home, burg, lineDir, newPlane): the plane holding the
\* Burgers vector and the line direction, newPlane = burg x lineDir.
FindPreciseGlidePlane(burg, lineDir) ==
    [v |-> cross(burg, lineDir.v), d |-> lineDir.d]

\* DotProduct(newPlane, newPlane) < 1.0e-03
BelowScrewThreshold(a) == 1000 * Dot3(a.v, a.v) < a.d

\* The planes PickScrewGlidePlane may choose for a screw segment.
ScrewPlaneInputs == { <<0, 0, 1>>, <<0, 1, 1>> }

(***************************************************************************)
(* Nodes and their arms.                                                   *)
(***************************************************************************)
MaxArms == 2           \* a node has 0..MaxArms arms

NodeA == 1
NodeB == 2
TagA == Tag(0, 3)
TagB == Tag(1, 7)
TagC == Tag(1, 2)

\* The arm lists tried: every list of up to MaxArms tags out of the given ones.
ArmTagLists(tags) == UNION {[0 .. n - 1 -> tags] : n \in 0 .. MaxArms}

\* A Node_t with the given tag, neighbour tags and position; the arm toward
\* tag bTag carries the Burgers vector b.  Arm i starts with the force
\* (1+10i, 2+10i, 3+10i) and a glide plane normal that marks its slot.
MkNode(tag, arms, pos, bTag, b, mark) ==
    LET idx == DOMAIN arms IN
    [myTag |-> tag,
     numNbrs |-> Cardinality(idx),
     nbrTag |-> arms,
     armfx |-> [i \in idx |-> 1 + 10 * i],
     armfy |-> [i \in idx |-> 2 + 10 * i],
     armfz |-> [i \in idx |-> 3 + 10 * i],
     burgX |-> [i \in idx |-> IF arms[i] = bTag THEN b[1] ELSE 0],
     burgY |-> [i \in idx |-> IF arms[i] = bTag THEN b[2] ELSE 1],
     burgZ |-> [i \in idx |-> IF arms[i] = bTag THEN b[3] ELSE 0],
     nx |-> [i \in idx |-> IntReal(mark + i)],
     ny |-> [i \in idx |-> IntReal(mark + 10 + i)],
     nz |-> [i \in idx |-> IntReal(mark + 20 + i)],
     x |-> pos[1], y |-> pos[2], z |-> pos[3],
     fX |-> 7, fY |-> 8, fZ |-> 9,
     flags |-> {"NODE_NO_COLLISIONS"}]

\* The loop of Connected, GetArmID and ResetSegForces: the first arm of nd
\* whose neighbour tag is tag, -1 if there is none.
FirstArmTo(nd, tag) ==
    LET hits == {i \in 0 .. nd.numNbrs - 1 :
                    nd.nbrTag[i].domainID = tag.domainID /\ nd.nbrTag[i].index = tag.index}
    IN  IF hits = {} THEN -1 ELSE CHOOSE i \in hits : \A j \in hits : i <= j

\* Connected(node1, node2, &armID): [ret, armID].
Connected(N, node1, node2) ==
    IF node1 = NULL \/ node2 = NULL THEN [ret |-> 0, armID |-> -1]
    ELSE LET i == FirstArmTo(N[node1], N[node2].myTag)
         IN  IF i >= 0 THEN [ret |-> 1, armID |-> i] ELSE [ret |-> 0, armID |-> -1]

\* GetArmID(home, node1, node2)
GetArmID(N, node1, node2) ==
    IF node1 = NULL \/ node2 = NULL THEN -1
    ELSE FirstArmTo(N[node1], N[node2].myTag)

\* The sum of a per-arm array over the arms 0..n-1, in loop order.
RECURSIVE SumArms(_, _)
SumArms(f, n) == IF n = 0 THEN 0 ELSE SumArms(f, n - 1) + f[n - 1]

(***************************************************************************)
(* GetNeighborNode (the version compiled, which expects a sparse arm       *)
(* list).                                                                  *)
(***************************************************************************)
MaxNbrs == 3           \* GetNeighborNode is tried on arm lists of 0..MaxNbrs slots

\* Nothing found: the diagnostic is printed, NULL is returned and no tag was
\* handed to GetNodeFromTag.
NoNeighbor == [res |-> Returned(NULL), resolved |-> <<>>]

\* A slip (the version of the function that is compiled out): the slot n of
\* the arm list is taken as it is.
GetNeighborNode_RawIndex(H, nd, n) ==
    IF n < 0 \/ n >= nd.numNbrs THEN NoNeighbor
    ELSE [res |-> GetNodeFromTag(H, nd.nbrTag[n]), resolved |-> <<nd.nbrTag[n]>>]

\* The loop of GetNeighborNode from slot i on, j valid arms having been
\* counted so far (j starts at -1).
RECURSIVE NeighborLoop(_, _, _, _, _)
NeighborLoop(H, nd, n, i, j) ==
    IF i >= nd.numNbrs THEN NoNeighbor
    ELSE LET j1 == IF nd.nbrTag[i].domainID >= 0 THEN j + 1 ELSE j IN
         IF j1 = n
         THEN [res |-> GetNodeFromTag(H, nd.nbrTag[i]), resolved |-> <<nd.nbrTag[i]>>]
         ELSE NeighborLoop(H, nd, n, i + 1, j1)

\* GetNeighborNode(home, node, n): what is returned (or the end of the
\* process in Fatal) and the tags handed to GetNodeFromTag.
GetNeighborNode(H, nd, n) == NeighborLoop(H, nd, n, 0, -1)

CallGetNeighborNode(id, n) ==
    /\ status = "running"
    /\ LET r == GetNeighborNode(Home, node[id], n) IN
         /\ nodeCall' = [called |-> TRUE, fn |-> "GetNeighborNode", nodeA |-> id, n |-> n,
                         res |-> r.res, resolved |-> r.resolved]
         /\ status' = IF r.res.fatal THEN "fatal" ELSE status
    /\ UNCHANGED <<ownVars, logVars, homeVars, tagCall, node, param>>

(***************************************************************************)
(* ResetSegForces.                                                         *)
(***************************************************************************)
\* The segment-force update and the re-summing of the nodal force.
SetArmForce(nd, i, fx, fy, fz) ==
    [nd EXCEPT !.armfx[i] = fx, !.armfy[i] = fy, !.armfz[i] = fz]

ResumForce(nd) ==
    [nd EXCEPT !.fX = SumArms(nd.armfx, nd.numNbrs),
               !.fY = SumArms(nd.armfy, nd.numNbrs),
               !.fZ = SumArms(nd.armfz, nd.numNbrs),
               !.flags = nd.flags \cup {"NODE_RESET_FORCES"}]

\* A slip: the nodal force is re-summed before the segment force is replaced.
ResetSegForces_SumFirst(L, nd, nodeBtag, fx, fy, fz, globalOp, fresh) ==
    LET L1 == IF globalOp # 0
              THEN AddOp(L, MkOp(RESET_SEG_FORCES, nd.myTag.domainID, nd.myTag.index,
                                 nodeBtag.domainID, nodeBtag.index, -1, -1,
                                 Zero3, <<fx, fy, fz>>, Zero3), fresh)
              ELSE L
        i  == FirstArmTo(nd, nodeBtag)
        n1 == ResumForce(nd)
        n2 == IF i >= 0 THEN SetArmForce(n1, i, fx, fy, fz) ELSE n1
    IN  [log |-> L1, node |-> n2,
         steps |-> <<[log |-> L1, node |-> nd], [log |-> L1, node |-> n1],
                     [log |-> L1, node |-> n2]>>]

\* A slip: the entry is appended at the end of the function, after the forces
\* and the flag of the node were changed.
ResetSegForces_LogLast(L, nd, nodeBtag, fx, fy, fz, globalOp, fresh) ==
    LET i  == FirstArmTo(nd, nodeBtag)
        n1 == IF i >= 0 THEN SetArmForce(nd, i, fx, fy, fz) ELSE nd
        n2 == ResumForce(n1)
        L1 == IF globalOp # 0
              THEN AddOp(L, MkOp(RESET_SEG_FORCES, nd.myTag.domainID, nd.myTag.index,
                                 nodeBtag.domainID, nodeBtag.index, -1, -1,
                                 Zero3, <<fx, fy, fz>>, Zero3), fresh)
              ELSE L
    IN  [log |-> L1, node |-> n2,
         steps |-> <<[log |-> L, node |-> n1], [log |-> L, node |-> n2],
                     [log |-> L1, node |-> n2]>>]

\* ResetSegForces(home, nodeA, nodeBtag, fx, fy, fz, globalOp) on the list L
\* and the node structure nd: the list and the node structure afterwards, and
\* in steps the two of them after each of the three parts of the function in
\* the order of execution (the AddOp under globalOp, the loop over the arms,
\* the re-summing with the flag).
ResetSegForces(L, nd, nodeBtag, fx, fy, fz, globalOp, fresh) ==
    LET L1 == IF globalOp # 0
              THEN AddOp(L, MkOp(RESET_SEG_FORCES, nd.myTag.domainID, nd.myTag.index,
                                 nodeBtag.domainID, nodeBtag.index, -1, -1,
                                 Zero3, <<fx, fy, fz>>, Zero3), fresh)
              ELSE L
        i  == FirstArmTo(nd, nodeBtag)
        n1 == IF i >= 0 THEN SetArmForce(nd, i, fx, fy, fz) ELSE nd
        n2 == ResumForce(n1)
    IN  [log |-> L1, node |-> n2,
         steps |-> <<[log |-> L1, node |-> nd], [log |-> L1, node |-> n1],
                     [log |-> L1, node |-> n2]>>]

ForceInputs == { <<4, 5, 6>>, <<-1, 0, 2>> }
MaxLogged   == 2       \* calls that append are tried while OpCount < MaxLogged

CallResetSegForces(nodeA, nodeBtag, f, globalOp, fresh) ==
    /\ status = "running"
    /\ globalOp # 0 => OpCount < MaxLogged /\ (OpCount < OpListLen \/ CanGrow)
    /\ LET r == ResetSegForces(HomeLog, node[nodeA], nodeBtag, f[1], f[2], f[3],
                               globalOp, fresh) IN
         /\ SetLog(r.log)
         /\ node' = [node EXCEPT ![nodeA] = r.node]
         /\ appended' = IF globalOp # 0
                        THEN Append(appended,
                                    MkOp(RESET_SEG_FORCES, node[nodeA].myTag.domainID,
                                         node[nodeA].myTag.index, nodeBtag.domainID,
                                         nodeBtag.index, -1, -1, Zero3, f, Zero3))
                        ELSE appended
         /\ logOps' = IF globalOp # 0 THEN Last2(logOps, "AddOp") ELSE logOps
         /\ cleared' = cleared
         /\ nodeCall' = [called |-> TRUE, fn |-> "ResetSegForces", nodeA |-> nodeA,
                         nodeBtag |-> nodeBtag, f |-> f, globalOp |-> globalOp,
                         pre |-> node, preLog |-> HomeLog, steps |-> r.steps]
    /\ IF globalOp # 0
       THEN HeapStep("AddOp", AddOpUses(HomeLog, storage),
                     IF OpCount >= OpListLen THEN Reallocated(storage) ELSE storage)
       ELSE UNCHANGED <<status, storage, heapCall>>
    /\ UNCHANGED <<ownVars, homeVars, tagCall, param>>

(***************************************************************************)
(* MarkNodeForceObsolete.                                                  *)
(***************************************************************************)
\* A slip: the early return for a node of the local domain is missing, so
\* the entry is appended for every node.
MarkNodeForceObsolete_NoLocalReturn(L, nd, thisDomain, fresh) ==
    [log  |-> AddOp(L, MkOp(MARK_FORCES_OBSOLETE, nd.myTag.domainID, nd.myTag.index,
                            -1, -1, -1, -1, Zero3, Zero3, Zero3), fresh),
     node |-> [nd EXCEPT !.flags = nd.flags \cup {"NODE_RESET_FORCES"}]]

\* MarkNodeForceObsolete(home, node) on the list L and the node structure nd,
\* thisDomain being home->myDomain: the list and the node structure afterwards.
MarkNodeForceObsolete(L, nd, thisDomain, fresh) ==
    LET n1 == [nd EXCEPT !.flags = nd.flags \cup {"NODE_RESET_FORCES"}]
    IN  IF nd.myTag.domainID = thisDomain
        THEN [log |-> L, node |-> n1]
        ELSE [log  |-> AddOp(L, MkOp(MARK_FORCES_OBSOLETE, nd.myTag.domainID,
                                     nd.myTag.index, -1, -1, -1, -1,
                                     Zero3, Zero3, Zero3), fresh),
              node |-> n1]

CallMarkNodeForceObsolete(n, fresh) ==
    /\ status = "running"
    /\ node[n].myTag.domainID # myDomain
          => OpCount < MaxLogged /\ (OpCount < OpListLen \/ CanGrow)
    /\ LET r == MarkNodeForceObsolete(HomeLog, node[n], myDomain, fresh) IN
         /\ SetLog(r.log)
         /\ node' = [node EXCEPT ![n] = r.node]
         /\ appended' = IF r.log.OpCount # OpCount
                        THEN Append(appended, r.log.opList[OpCount])
                        ELSE appended
         /\ logOps' = IF r.log.OpCount # OpCount THEN Last2(logOps, "AddOp") ELSE logOps
         /\ cleared' = cleared
         /\ IF r.log.OpCount # OpCount
            THEN HeapStep("AddOp", AddOpUses(HomeLog, storage),
                          IF OpCount >= OpListLen THEN Reallocated(storage) ELSE storage)
            ELSE UNCHANGED <<status, storage, heapCall>>
    /\ nodeCall' = [called |-> TRUE, fn |-> "MarkNodeForceObsolete", nodeA |-> n,
                    pre |-> node, preLog |-> HomeLog]
    /\ UNCHANGED <<ownVars, homeVars, tagCall, param>>

(***************************************************************************)
(* RecalcSegGlidePlane.                                                    *)
(***************************************************************************)
SetArmPlane(nd, i, plane) ==
    [nd EXCEPT !.nx[i] = SqrtRatio(plane.v[1], plane.d),
               !.ny[i] = SqrtRatio(plane.v[2], plane.d),
               !.nz[i] = SqrtRatio(plane.v[3], plane.d)]

\* The plane the call derives for the segment node1 -> node2 over arm segID.
DerivedPlane(N, P, node1, node2, segID) ==
    LET burg    == <<N[node1].burgX[segID], N[node1].burgY[segID], N[node1].burgZ[segID]>>
        lineDir == NormalizeVec(ZImage(P, <<N[node2].x - N[node1].x,
                                            N[node2].y - N[node1].y,
                                            N[node2].z - N[node1].z>>))
    IN  FindPreciseGlidePlane(burg, lineDir)

Untouched(N) == [node |-> N, wrote |-> {}, outOfBounds |-> FALSE]

\* The two stores at the end of the function.  node2SegID is -1 when node2
\* has no arm back to node1; node2->nx[-1] then lies outside the arm arrays.
StorePlane(N, node1, node1SegID, node2, node2SegID, plane) ==
    LET N1 == [N EXCEPT ![node1] = SetArmPlane(N[node1], node1SegID, plane)]
    IN  IF node2SegID >= 0
        THEN [node |-> [N1 EXCEPT ![node2] = SetArmPlane(N1[node2], node2SegID, plane)],
              wrote |-> {<<node1, node1SegID>>, <<node2, node2SegID>>},
              outOfBounds |-> FALSE]
        ELSE [node |-> N1,
              wrote |-> {<<node1, node1SegID>>, <<node2, node2SegID>>},
              outOfBounds |-> TRUE]

\* A slip: the screw test ignores ignoreIfScrew and always picks a plane.
RecalcSegGlidePlane_AlwaysPick(N, P, node1, node2, ignoreIfScrew, screwPlane) ==
    IF node1 = NULL \/ node2 = NULL \/ node1 = node2 THEN Untouched(N)
    ELSE LET c == Connected(N, node1, node2) IN
         IF c.ret = 0 THEN Untouched(N)
         ELSE LET node2SegID == GetArmID(N, node2, node1)
                  newPlane   == DerivedPlane(N, P, node1, node2, c.armID)
                  chosen     == IF BelowScrewThreshold(newPlane)
                                THEN [v |-> screwPlane, d |-> 1]
                                ELSE newPlane
              IN  StorePlane(N, node1, c.armID, node2, node2SegID, Normalize(chosen))

\* RecalcSegGlidePlane(home, node1, node2, ignoreIfScrew) on the node
\* structures N; screwPlane is what PickScrewGlidePlane gives if it is called.
RecalcSegGlidePlane(N, P, node1, node2, ignoreIfScrew, screwPlane) ==
    IF node1 = NULL \/ node2 = NULL \/ node1 = node2 THEN Untouched(N)
    ELSE LET c == Connected(N, node1, node2) IN
         IF c.ret = 0 THEN Untouched(N)
         ELSE LET node2SegID == GetArmID(N, node2, node1)
                  newPlane   == DerivedPlane(N, P, node1, node2, c.armID)
              IN  IF BelowScrewThreshold(newPlane) /\ ignoreIfScrew # 0
                  THEN Untouched(N)
                  ELSE LET chosen == IF BelowScrewThreshold(newPlane)
                                     THEN [v |-> screwPlane, d |-> 1]
                                     ELSE newPlane
                       IN  StorePlane(N, node1, c.armID, node2, node2SegID,
                                      Normalize(chosen))

\* A store outside the arm arrays is undefined behaviour: the process goes
\* on with the modelled fields as they are, or it is ended by the fault.
CallRecalcSegGlidePlane(node1, node2, ignoreIfScrew, screwPlane) ==
    /\ status = "running"
    /\ LET r == RecalcSegGlidePlane(node, param, node1, node2, ignoreIfScrew, screwPlane) IN
         /\ node' = r.node
         /\ nodeCall' = [called |-> TRUE, fn |-> "RecalcSegGlidePlane", node1 |-> node1, node2 |-> node2,
                         ignoreIfScrew |-> ignoreIfScrew, pre |-> node,
                         wrote |-> r.wrote, outOfBounds |-> r.outOfBounds]
         /\ status' \in IF r.outOfBounds THEN {"running", "crashed"} ELSE {status}
    /\ UNCHANGED <<ownVars, logVars, homeVars, tagCall, param>>

(***************************************************************************)
(* Initial states and specifications.  Each specification starts the part  *)
(* of home it exercises from the inputs listed and leaves the rest at a    *)
(* fixed start.                                                            *)
(***************************************************************************)
JunkBlock == [i \in 0 .. OpBlock_Count - 1 |-> JunkOp]

BoxParam(bt) == [Lx |-> 4, Ly |-> 4, Lz |-> 4,
                 xBoundType |-> bt, yBoundType |-> bt, zBoundType |-> bt]
ParamInputs == {BoxParam("Periodic"), BoxParam("Free")}

PosInputs  == { <<3, 0, 0>>, <<1, 2, 2>>, <<40, 1, 0>> }
BurgInputs == { <<1, 0, 0>>, <<1, 1, 0>> }

\* The arm lists of node B: no arm, an arm back to A first or second, or an
\* arm to another node only.
ArmListsB ==
    { <<>>,
      [i \in 0 .. 0 |-> TagA],
      [i \in 0 .. 0 |-> TagC],
      [i \in 0 .. 1 |-> IF i = 0 THEN TagC ELSE TagA] }

\* Node A = (0,3) at the origin and node B = (1,7) at posB, with the arm lists
\* given; the arm A -> B carries the Burgers vector b, the arm B -> A carries -b.
TwoNodes(armsA, armsB, posB, b) ==
    [id \in {NodeA, NodeB} |->
        IF id = NodeA
        THEN MkNode(TagA, armsA, Zero3, TagB, b, 100)
        ELSE MkNode(TagB, armsB, posB, TagA, <<0 - b[1], 0 - b[2], 0 - b[3]>>, 200)]

\* The node structures behind the tag tables: one per tag, without arms.
TagHeap ==
    [id \in TagNodeIds |->
        MkNode(Tag((id - 1) \div (MaxIndex + 1), (id - 1) % (MaxIndex + 1)),
               <<>>, Zero3, Tag(-1, -1), Zero3, 100)]

StartOwn == cycle = 0 /\ ownCall = NoCall

StartLog(fresh) ==
    /\ opList = InitOpList(fresh).opList
    /\ OpCount = InitOpList(fresh).OpCount
    /\ OpListLen = InitOpList(fresh).OpListLen
    /\ appended = <<>>
    /\ logOps = <<"InitOpList">>
    /\ cleared = FALSE
    /\ storage = "allocated"
    /\ heapCall = [called |-> TRUE, fn |-> "InitOpList", uses |-> {Use("malloc", "none")}]

StartHome ==
    /\ myDomain = 0
    /\ newNodeKeyPtr = 0
    /\ nodeKeys = LocalKeys(0, 0, {})
    /\ remoteDomainKeys = [d \in Domains |-> NoRemoteDomain]
    /\ tagCall = NoCall

StartNodes ==
    /\ node = TwoNodes([i \in 0 .. 0 |-> TagB], [i \in 0 .. 0 |-> TagA], <<1, 0, 0>>, <<1, 0, 0>>)
    /\ param = BoxParam("Periodic")
    /\ nodeCall = NoCall

\* Ownership arbitration over the cycles.
InitOwn ==
    /\ status = "running"
    /\ StartOwn /\ StartLog(JunkBlock) /\ StartHome /\ StartNodes

NextOwn ==
    \/ \E opClass \in OpClassInputs, d \in OwnDomains, e \in OwnDomains, i \in OwnIndices :
          CallDomainOwnsSeg(opClass, d, Tag(e, i))
    \/ AdvanceCycle

SpecOwn == InitOwn /\ [][NextOwn]_vars

\* Ownership arbitration in a run that goes on for ever: the calls with a
\* valid class never end the process, and the time step loop of the caller
\* takes one step after the other, so the step is never put off for ever.
\* The calls made are those of the two domains of one boundary.
BoundaryDomains == {2, MaxDomain}

NextCycle ==
    \/ \E opClass \in ValidOpClasses, d \in BoundaryDomains, e \in BoundaryDomains :
          CallDomainOwnsSeg(opClass, d, Tag(e, 0))
    \/ StepCycle

SpecCycle == InitOwn /\ [][NextCycle]_vars /\ WF_vars(StepCycle)

\* The operation list, from InitOpList on.
InitLog ==
    /\ status = "running"
    /\ StartOwn /\ StartHome /\ StartNodes
    /\ \E fresh \in FreshBlocks : StartLog(fresh)

NextLog ==
    \/ \E a \in OpInputs, fresh \in FreshBlocks : CallAddOp(a, fresh)
    \/ \E fresh \in FreshBlocks : CallExtendOpList(fresh)
    \/ CallClearOpList

SpecLog == InitLog /\ [][NextLog]_vars

\* The operation list with its storage: any sequence of the five calls.
NextHeap ==
    \/ \E a \in OpInputs, fresh \in FreshBlocks : CallAddOp(a, fresh)
    \/ \E fresh \in FreshBlocks : CallExtendOpList(fresh)
    \/ CallClearOpList
    \/ CallFreeOpList
    \/ \E fresh \in FreshBlocks : CallInitOpList(fresh)

SpecHeap == InitLog /\ [][NextHeap]_vars

\* Tag resolution over the tables a domain can hold.
InitTag ==
    /\ status = "running"
    /\ StartOwn /\ StartLog(JunkBlock)
    /\ myDomain \in Domains
    /\ newNodeKeyPtr \in 0 .. MaxIndex + 1
    /\ \E present \in SUBSET (0 .. MaxIndex) :
          nodeKeys = LocalKeys(myDomain, newNodeKeyPtr, present)
    /\ remoteDomainKeys \in RemoteKeyTables(myDomain)
    /\ tagCall = NoCall
    /\ node = TagHeap
    /\ param = BoxParam("Periodic")
    /\ nodeCall = NoCall

NextTag == \E tag \in TagInputs : CallGetNodeFromTag(tag)

SpecTag == InitTag /\ [][NextTag]_vars

\* The neighbours of the local node (0,0).  Its arm list holds holes (the tag
\* (-1,-1) of a removed arm) and the tags of a local and two remote nodes;
\* the remote domain 1 has no cache or one that holds its nodes.
Hole == Tag(-1, -1)
NbrTags == {Hole, Tag(0, 1), Tag(1, 0), Tag(1, 1)}
NbrArmLists == UNION {[0 .. k - 1 -> NbrTags] : k \in 0 .. MaxNbrs}
NbrInputs == -1 .. MaxNbrs

InitNbr ==
    /\ status = "running"
    /\ StartOwn /\ StartLog(JunkBlock)
    /\ myDomain = 0
    /\ newNodeKeyPtr = MaxIndex + 1
    /\ \E present \in {{0}, 0 .. MaxIndex} : nodeKeys = LocalKeys(0, newNodeKeyPtr, present)
    /\ remoteDomainKeys \in
          {[d \in Domains |-> NoRemoteDomain],
           [d \in Domains |-> IF d = 1 THEN RemoteDomain(1, MaxIndex, 0 .. MaxIndex)
                                       ELSE NoRemoteDomain]}
    /\ tagCall = NoCall
    /\ \E arms \in NbrArmLists :
          node = [TagHeap EXCEPT ![NodeIdOf(0, 0)] =
                     MkNode(Tag(0, 0), arms, Zero3, Hole, Zero3, 100)]
    /\ param = BoxParam("Periodic")
    /\ nodeCall = NoCall

NextNbr == \E n \in NbrInputs : CallGetNeighborNode(NodeIdOf(0, 0), n)

SpecNbr == InitNbr /\ [][NextNbr]_vars

\* Segment forces of node A over its arm lists, and the force-stale mark of
\* the local node A and the remote node B.
InitForce ==
    /\ status = "running"
    /\ StartOwn /\ StartLog(JunkBlock) /\ StartHome
    /\ \E armsA \in ArmTagLists({TagB, TagC}) :
          node = TwoNodes(armsA, [i \in 0 .. 0 |-> TagA], <<1, 0, 0>>, <<1, 0, 0>>)
    /\ param = BoxParam("Periodic")
    /\ nodeCall = NoCall

NextForce ==
    \/ \E nodeBtag \in {TagB, TagC}, f \in ForceInputs, globalOp \in {0, 1} :
          CallResetSegForces(NodeA, nodeBtag, f, globalOp, JunkBlock)
    \/ \E n \in {NodeA, NodeB} : CallMarkNodeForceObsolete(n, JunkBlock)

SpecForce == InitForce /\ [][NextForce]_vars

\* Glide planes of the segment between nodes A and B.
InitPlane ==
    /\ status = "running"
    /\ StartOwn /\ StartLog(JunkBlock) /\ StartHome
    /\ \E armsA \in ArmTagLists({TagB, TagC}), armsB \in ArmListsB,
          posB \in PosInputs, b \in BurgInputs :
          node = TwoNodes(armsA, armsB, posB, b)
    /\ param \in ParamInputs
    /\ nodeCall = NoCall

NextPlane ==
    \E node1 \in {NULL, NodeA, NodeB}, node2 \in {NULL, NodeA, NodeB},
       ignoreIfScrew \in {0, 1}, screwPlane \in ScrewPlaneInputs :
        CallRecalcSegGlidePlane(node1, node2, ignoreIfScrew, screwPlane)

SpecPlane == InitPlane /\ [][NextPlane]_vars

(***************************************************************************)
(* Ownership arbitration (checked under SpecOwn).                          *)
(***************************************************************************)
OwnCrossCall == ownCall.called /\ ownCall.thisDomain # ownCall.endTag.domainID

\* C1: for two distinct domains, a valid opClass and one value of the cycle
\* counter, exactly one of DomainOwnsSeg(opClass, d1, tag in d2) and
\* DomainOwnsSeg(opClass, d2, tag in d1) returns 1.
C1_ExactlyOneOwner ==
    (OwnCrossCall /\ ownCall.opClass \in ValidOpClasses) =>
        \A i \in OwnIndices :
            LET other == DomainOwnsSeg(ownCall.cycle, ownCall.opClass,
                                       ownCall.endTag.domainID, Tag(ownCall.thisDomain, i))
            IN  /\ ~ownCall.res.fatal
                /\ ~other.fatal
                /\ ownCall.res.ret \in {0, 1}
                /\ other.ret \in {0, 1}
                /\ ownCall.res.ret + other.ret = 1

C1_Witness ==
    /\ OwnCrossCall
    /\ ownCall.opClass = OPCLASS_REMESH
    /\ ownCall.cycle = 3
    /\ ownCall.res = Returned(1)

CollisionAnswer ==
    DomainOwnsSeg(ownCall.cycle, OPCLASS_COLLISION, ownCall.thisDomain, ownCall.endTag)

\* C2 as claimed: for every (d1, d2, cycle), DomainOwnsSeg with opClass remesh
\* returns the negation of DomainOwnsSeg with opClass collision.
C2_RemeshNegatesCollision ==
    (ownCall.called /\ ownCall.opClass = OPCLASS_REMESH) =>
        /\ ~ownCall.res.fatal
        /\ ownCall.res.ret = 1 - CollisionAnswer.ret

\* C2 as amended: for every (d1, d2, cycle) with d1 # d2, DomainOwnsSeg with
\* opClass remesh returns the negation of DomainOwnsSeg with opClass
\* collision; with d1 = d2 both return 1.
C2_RemeshNegatesCollisionAcrossDomains ==
    (ownCall.called /\ ownCall.opClass = OPCLASS_REMESH) =>
        /\ ~ownCall.res.fatal
        /\ ownCall.res.ret = IF ownCall.thisDomain # ownCall.endTag.domainID
                             THEN 1 - CollisionAnswer.ret
                             ELSE CollisionAnswer.ret
        /\ ownCall.thisDomain = ownCall.endTag.domainID => ownCall.res.ret = 1

C2_Witness ==
    /\ OwnCrossCall
    /\ ownCall.opClass = OPCLASS_REMESH
    /\ ownCall.res = Returned(0)
    /\ CollisionAnswer = Returned(1)

\* C3: across two different domains, separation and collision give the
\* segment to the higher-numbered domain on odd cycles and to the
\* lower-numbered one on even cycles; remesh gives it to the other one.
C3_OwnerByParity ==
    (OwnCrossCall /\ ownCall.opClass \in ValidOpClasses) =>
        LET d1 == ownCall.thisDomain
            d2 == ownCall.endTag.domainID
            higher == IF d1 > d2 THEN d1 ELSE d2
            lower  == IF d1 > d2 THEN d2 ELSE d1
            odd    == ownCall.cycle % 2 = 1
            owner  == IF ownCall.opClass = OPCLASS_REMESH
                      THEN (IF odd THEN lower ELSE higher)
                      ELSE (IF odd THEN higher ELSE lower)
        IN  ownCall.res = Returned(IF d1 = owner THEN 1 ELSE 0)

\* Domains 2 and 5, collision: cycle 5 gives the segment to domain 5.
C3_Witness ==
    /\ ownCall.called
    /\ ownCall.opClass = OPCLASS_COLLISION
    /\ ownCall.cycle = 5
    /\ ownCall.thisDomain = 5
    /\ ownCall.endTag.domainID = 2
    /\ ownCall.res = Returned(1)

\* C8 as claimed: with an opClass other than separation, collision or remesh
\* DomainOwnsSeg ends in Fatal for every thisDomain and endTag.
C8_InvalidOpClassIsFatal ==
    (ownCall.called /\ ownCall.opClass \notin ValidOpClasses) =>
        ownCall.res = FatalExit /\ status = "fatal"

\* C8 as amended: with an opClass other than separation, collision or remesh
\* DomainOwnsSeg ends in Fatal, and returns nothing, for every thisDomain and
\* endTag of another domain; when endTag is in thisDomain it returns 1 and
\* Fatal is not invoked.
C8_InvalidOpClassIsFatalAcrossDomains ==
    (ownCall.called /\ ownCall.opClass \notin ValidOpClasses) =>
        IF ownCall.thisDomain # ownCall.endTag.domainID
        THEN ownCall.res = FatalExit /\ status = "fatal"
        ELSE ownCall.res = Returned(1) /\ status = "running"

C8_Witness ==
    /\ OwnCrossCall
    /\ ownCall.opClass = 4
    /\ ownCall.res = FatalExit
    /\ status = "fatal"

(***************************************************************************)
(* The operation list (checked under SpecLog).                             *)
(***************************************************************************)
\* What a reader of the list sees: the count and the entries below it.
LogView(L) == [count |-> L.OpCount,
               entries |-> [i \in 0 .. L.OpCount - 1 |-> L.opList[i]]]

\* C4: after InitOpList and N calls of AddOp with no ClearOpList, OpCount = N
\* and opList[0..N-1] are the N entries given, in call order, whatever
\* ExtendOpList did in between.
C4_AppendedInOrder ==
    ~cleared =>
        /\ OpCount = Len(appended)
        /\ OpCount <= OpListLen
        /\ \A k \in 1 .. Len(appended) : opList[k - 1] = appended[k]

\* Four entries in a list that grew twice, the second time by a call of
\* ExtendOpList between the third and the fourth AddOp.
C4_Witness ==
    /\ ~cleared
    /\ Len(appended) = 2 * OpBlock_Count
    /\ OpCount = 2 * OpBlock_Count
    /\ OpListLen = 3 * OpBlock_Count
    /\ appended[1] # appended[2]
    /\ logOps = <<"ExtendOpList", "AddOp">>

\* C5: ClearOpList followed by AddOp(e) leaves count 1 and the single entry
\* e, which is what InitOpList followed by AddOp(e) leaves.
C5_ClearThenAddIsFresh ==
    logOps = <<"ClearOpList", "AddOp">> =>
        LET e == appended[Len(appended)] IN
        /\ OpCount = 1
        /\ opList[0] = e
        /\ \A f1 \in FreshBlocks, f2 \in FreshBlocks :
              LogView(HomeLog) = LogView(AddOp(InitOpList(f1), e, f2))

\* The list had grown to two blocks before it was cleared.
C5_Witness ==
    /\ logOps = <<"ClearOpList", "AddOp">>
    /\ OpListLen = 2 * OpBlock_Count
    /\ OpCount = 1
    /\ opList[1] = ZeroOp

(***************************************************************************)
(* Segment forces (checked under SpecForce).                               *)
(***************************************************************************)
ResetCall == nodeCall.called /\ nodeCall.fn = "ResetSegForces"

\* C6: after every call of ResetSegForces on a node, each component of the
\* node's total force is the sum of that component over its numNbrs
\* per-arm forces, whether or not an arm ends at the given tag.
C6_TotalForceIsSumOfArms ==
    ResetCall =>
        LET nd == node[nodeCall.nodeA] IN
        /\ nd.fX = SumArms(nd.armfx, nd.numNbrs)
        /\ nd.fY = SumArms(nd.armfy, nd.numNbrs)
        /\ nd.fZ = SumArms(nd.armfz, nd.numNbrs)

\* One arm to (1,7) with force (1,2,3), reset to (4,5,6): the total is (4,5,6).
C6_Witness ==
    /\ ResetCall
    /\ nodeCall.pre[nodeCall.nodeA].numNbrs = 1
    /\ nodeCall.pre[nodeCall.nodeA].myTag = Tag(0, 3)
    /\ nodeCall.pre[nodeCall.nodeA].nbrTag[0] = Tag(1, 7)
    /\ nodeCall.pre[nodeCall.nodeA].armfx[0] = 1
    /\ nodeCall.pre[nodeCall.nodeA].armfy[0] = 2
    /\ nodeCall.pre[nodeCall.nodeA].armfz[0] = 3
    /\ nodeCall.nodeBtag = Tag(1, 7)
    /\ nodeCall.f = <<4, 5, 6>>
    /\ node[nodeCall.nodeA].fX = 4
    /\ node[nodeCall.nodeA].fY = 5
    /\ node[nodeCall.nodeA].fZ = 6

(***************************************************************************)
(* Glide planes (checked under SpecPlane).                                 *)
(***************************************************************************)
RecalcCall == nodeCall.called /\ nodeCall.fn = "RecalcSegGlidePlane"

\* The glide plane normals of every node.
Normals(N) == [id \in DOMAIN N |-> <<N[id].nx, N[id].ny, N[id].nz>>]

HandleAbsent == nodeCall.node1 = NULL \/ nodeCall.node2 = NULL
SameHandle   == nodeCall.node1 = nodeCall.node2
NoArmToNode2 ==
    \A i \in 0 .. nodeCall.pre[nodeCall.node1].numNbrs - 1 :
        nodeCall.pre[nodeCall.node1].nbrTag[i] # nodeCall.pre[nodeCall.node2].myTag
ScrewIgnored ==
    /\ nodeCall.ignoreIfScrew # 0
    /\ BelowScrewThreshold(
          DerivedPlane(nodeCall.pre, param, nodeCall.node1, nodeCall.node2,
                       FirstArmTo(nodeCall.pre[nodeCall.node1],
                                  nodeCall.pre[nodeCall.node2].myTag)))

\* C7: RecalcSegGlidePlane leaves every glide plane normal as it was when a
\* handle is absent, the handles are the same node, node1 has no arm to
\* node2, or the derived plane is below the screw threshold and
\* ignoreIfScrew is set.
C7_NoOpKeepsNormals ==
    (RecalcCall /\ (HandleAbsent \/ SameHandle \/ NoArmToNode2 \/ ScrewIgnored)) =>
        /\ Normals(node) = Normals(nodeCall.pre)
        /\ nodeCall.wrote = {}
        /\ status = "running"

\* A connected pair whose derived plane is not zero but below the threshold.
C7_Witness ==
    /\ RecalcCall
    /\ ~HandleAbsent /\ ~SameHandle /\ ~NoArmToNode2
    /\ ScrewIgnored
    /\ node[nodeCall.node2].x = 40
    /\ param.xBoundType = "Free"
    /\ Normals(node) = Normals(nodeCall.pre)

(***************************************************************************)
(* Tag resolution (checked under SpecTag).                                 *)
(***************************************************************************)
TagInvalid == tagCall.tag.domainID < 0 \/ tagCall.tag.index < 0
TagLocal   == ~TagInvalid /\ tagCall.tag.domainID = myDomain
TagRemote  == ~TagInvalid /\ tagCall.tag.domainID # myDomain

\* C9: GetNodeFromTag ends in Fatal exactly when the domainID or the index of
\* the tag is negative; every other lookup returns a node or NULL, and a
\* local tag at or past newNodeKeyPtr or with an empty slot returns NULL.
C9_FatalOnlyOnInvalidTag ==
    tagCall.called =>
        /\ tagCall.res.fatal <=> TagInvalid
        /\ status = "fatal" <=> TagInvalid
        /\ ~TagInvalid => tagCall.res.ret \in {NULL} \cup TagNodeIds
        /\ (TagLocal /\ (tagCall.tag.index >= newNodeKeyPtr
                         \/ nodeKeys[tagCall.tag.index] = NULL))
              => tagCall.res = Returned(NULL)

\* A local tag below newNodeKeyPtr whose slot is empty: NULL, no Fatal.
C9_Witness ==
    /\ tagCall.called
    /\ TagLocal
    /\ tagCall.tag.index < newNodeKeyPtr
    /\ nodeKeys[tagCall.tag.index] = NULL
    /\ tagCall.res = Returned(NULL)
    /\ status = "running"

\* C10: for a tag of a remote domain GetNodeFromTag returns NULL if the domain
\* has no cache, the index exceeds the domain's maxTagIndex or the slot is
\* empty, and the node cached in slot tag.index in every other case, an index
\* equal to maxTagIndex included.
C10_RemoteLookup ==
    (tagCall.called /\ TagRemote) =>
        LET remDom == remoteDomainKeys[tagCall.tag.domainID] IN
        IF \/ ~remDom.allocated
           \/ tagCall.tag.index > remDom.maxTagIndex
           \/ remDom.nodeKeys[tagCall.tag.index] = NULL
        THEN tagCall.res = Returned(NULL)
        ELSE tagCall.res = Returned(remDom.nodeKeys[tagCall.tag.index])

(***************************************************************************)
(* The force-stale mark and the entries sent to the owning domain          *)
(* (checked under SpecForce).                                              *)
(***************************************************************************)
MarkCall == nodeCall.called /\ nodeCall.fn = "MarkNodeForceObsolete"

\* The list now holds what it held before the call and, after it, exactly
\* the entry e.
AppendedExactly(e) ==
    /\ OpCount = nodeCall.preLog.OpCount + 1
    /\ opList[nodeCall.preLog.OpCount] = e
    /\ \A k \in 0 .. nodeCall.preLog.OpCount - 1 : opList[k] = nodeCall.preLog.opList[k]

\* C11: MarkNodeForceObsolete always sets NODE_RESET_FORCES in the flags of
\* the node and changes nothing else of it.  When the domain of the node's
\* tag is not the local domain it appends exactly one entry: type
\* MARK_FORCES_OBSOLETE, the node's tag in slot 1, (-1,-1) in slots 2 and 3,
\* the nine vector fields zero.  For a node of the local domain the count
\* and the entries of the list are as before.
C11_MarkSetsFlagAndLogsRemote ==
    MarkCall =>
        LET nd == nodeCall.pre[nodeCall.nodeA] IN
        /\ "NODE_RESET_FORCES" \in node[nodeCall.nodeA].flags
        /\ node = [nodeCall.pre EXCEPT
                     ![nodeCall.nodeA].flags = nd.flags \cup {"NODE_RESET_FORCES"}]
        /\ IF nd.myTag.domainID # myDomain
           THEN AppendedExactly(
                    [type |-> MARK_FORCES_OBSOLETE,
                     dom1 |-> nd.myTag.domainID, idx1 |-> nd.myTag.index,
                     dom2 |-> -1, idx2 |-> -1, dom3 |-> -1, idx3 |-> -1,
                     bx |-> 0, by |-> 0, bz |-> 0,
                     x  |-> 0, y  |-> 0, z  |-> 0,
                     nx |-> 0, ny |-> 0, nz |-> 0])
           ELSE LogView(HomeLog) = LogView(nodeCall.preLog)

\* The remote node (1,7) marked when the list already held the entry of a
\* force reset.
C11_Witness ==
    /\ MarkCall
    /\ nodeCall.pre[nodeCall.nodeA].myTag = Tag(1, 7)
    /\ myDomain = 0
    /\ nodeCall.preLog.OpCount = 1
    /\ OpCount = 2
    /\ opList[1].type = MARK_FORCES_OBSOLETE
    /\ "NODE_RESET_FORCES" \notin nodeCall.pre[NodeB].flags
    /\ "NODE_RESET_FORCES" \in node[NodeB].flags
    /\ opList[0].type = RESET_SEG_FORCES

\* C12: with globalOp set, ResetSegForces appends exactly one entry, and it
\* does so before any force or flag of nodeA changes: the entry has type
\* RESET_SEG_FORCES, nodeA's tag in slot 1, nodeBtag in slot 2, (-1,-1) in
\* slot 3, (fx,fy,fz) in the position triple and zero Burgers and normal
\* triples; at every point of the call where the list is not yet the final
\* one, nodeA is still as it was.  With globalOp clear, the count and the
\* entries of the list are as before.
C12_ResetLogsFirst ==
    ResetCall =>
        LET nd == nodeCall.pre[nodeCall.nodeA] IN
        IF nodeCall.globalOp # 0
        THEN /\ AppendedExactly(
                    [type |-> RESET_SEG_FORCES,
                     dom1 |-> nd.myTag.domainID, idx1 |-> nd.myTag.index,
                     dom2 |-> nodeCall.nodeBtag.domainID, idx2 |-> nodeCall.nodeBtag.index,
                     dom3 |-> -1, idx3 |-> -1,
                     bx |-> 0, by |-> 0, bz |-> 0,
                     x  |-> nodeCall.f[1], y |-> nodeCall.f[2], z |-> nodeCall.f[3],
                     nx |-> 0, ny |-> 0, nz |-> 0])
             /\ \A k \in 1 .. Len(nodeCall.steps) :
                   /\ nodeCall.steps[k].log # HomeLog => nodeCall.steps[k].node = nd
                   /\ nodeCall.steps[k].log \in {nodeCall.preLog, HomeLog}
             /\ nodeCall.steps[Len(nodeCall.steps)].node = node[nodeCall.nodeA]
        ELSE /\ LogView(HomeLog) = LogView(nodeCall.preLog)
             /\ \A k \in 1 .. Len(nodeCall.steps) :
                   LogView(nodeCall.steps[k].log) = LogView(nodeCall.preLog)

\* A global reset of the arm (0,3) -> (1,7) to the force (-1,0,2) on a list
\* that held one entry: the entry is there after the first part of the call,
\* when the node is still untouched, and the node has changed by the end.
C12_Witness ==
    /\ ResetCall
    /\ nodeCall.globalOp = 1
    /\ nodeCall.preLog.OpCount = 1
    /\ OpCount = 2
    /\ opList[1] = MkOp(RESET_SEG_FORCES, 0, 3, 1, 7, -1, -1, Zero3, <<-1, 0, 2>>, Zero3)
    /\ nodeCall.steps[1].log = HomeLog
    /\ nodeCall.steps[1].node = nodeCall.pre[NodeA]
    /\ node[NodeA].armfx # nodeCall.pre[NodeA].armfx
    /\ "NODE_RESET_FORCES" \notin nodeCall.pre[NodeA].flags
    /\ "NODE_RESET_FORCES" \in node[NodeA].flags

(***************************************************************************)
(* The storage of the operation list (checked under SpecHeap).             *)
(***************************************************************************)
\* C13: over any sequence of InitOpList, AddOp, ExtendOpList, ClearOpList
\* and FreeOpList calls, no call hands to free a block that is already
\* released, and no call reads, writes or reallocates a released block; so
\* the heap is never damaged and the allocator never ends the process.
C13_ReleasedExactlyOnce ==
    /\ \A u \in heapCall.uses :
          u.on \in {"released", "corrupt"} =>
              u.op \notin {"free", "realloc", "write", "read"}
    /\ storage # "corrupt"
    /\ status # "crashed"

(***************************************************************************)
(* Neighbour lookup (checked under SpecNbr).                               *)
(***************************************************************************)
NbrCall == nodeCall.called /\ nodeCall.fn = "GetNeighborNode"

\* The slots of the arm list that hold a valid arm.
ValidArms(nd) == {i \in 0 .. nd.numNbrs - 1 : nd.nbrTag[i].domainID >= 0}

\* C14: for n >= 0, GetNeighborNode(node, n) hands to GetNodeFromTag the tag
\* of the arm that has exactly n valid arms (domainID >= 0) before it in the
\* list, and no other tag, and returns what GetNodeFromTag gives for it; a
\* hole is never handed over; with fewer than n+1 valid arms it returns NULL
\* and resolves no tag.
C14_NthValidNeighbor ==
    (NbrCall /\ nodeCall.n >= 0) =>
        LET nd    == node[nodeCall.nodeA]
            valid == ValidArms(nd)
        IN  /\ \A k \in 1 .. Len(nodeCall.resolved) : nodeCall.resolved[k].domainID >= 0
            /\ IF Cardinality(valid) >= nodeCall.n + 1
               THEN LET i == CHOOSE i \in valid :
                                Cardinality({m \in valid : m < i}) = nodeCall.n
                    IN  /\ nodeCall.resolved = <<nd.nbrTag[i]>>
                        /\ nodeCall.res = GetNodeFromTag(Home, nd.nbrTag[i])
                        /\ status = "running"
               ELSE /\ nodeCall.resolved = <<>>
                    /\ nodeCall.res = Returned(NULL)
                    /\ status = "running"

\* The list (1,0), hole, (0,1) asked for neighbour 1: the local node (0,1)
\* in slot 2.
C14_Witness ==
    /\ NbrCall
    /\ nodeCall.n = 1
    /\ node[nodeCall.nodeA].numNbrs = 3
    /\ node[nodeCall.nodeA].nbrTag[0] = Tag(1, 0)
    /\ node[nodeCall.nodeA].nbrTag[1] = Hole
    /\ node[nodeCall.nodeA].nbrTag[2] = Tag(0, 1)
    /\ nodeCall.resolved = <<Tag(0, 1)>>
    /\ nodeCall.res = Returned(NodeIdOf(0, 1))

(***************************************************************************)
(* The slots a glide plane is written to (checked under SpecPlane).        *)
(***************************************************************************)
\* C15: whenever RecalcSegGlidePlane writes a normal, it writes it into
\* exactly two slots, node1's arm to node2 and node2's arm to node1, both
\* within 0..numNbrs-1 of their node, the same normal into both, and every
\* other slot keeps its normal; also when node2 has no arm back to node1.
C15_WritesBothArmsInRange ==
    (RecalcCall /\ nodeCall.wrote # {}) =>
        LET pre == nodeCall.pre
            n1  == nodeCall.node1
            n2  == nodeCall.node2
            i1  == FirstArmTo(pre[n1], pre[n2].myTag)
            i2  == FirstArmTo(pre[n2], pre[n1].myTag)
        IN  /\ nodeCall.wrote = {<<n1, i1>>, <<n2, i2>>}
            /\ \A w \in nodeCall.wrote : w[2] \in 0 .. pre[w[1]].numNbrs - 1
            /\ ~nodeCall.outOfBounds
            /\ status = "running"
            /\ node[n1].nx[i1] = node[n2].nx[i2]
            /\ node[n1].ny[i1] = node[n2].ny[i2]
            /\ node[n1].nz[i1] = node[n2].nz[i2]
            /\ \A id \in DOMAIN node : \A i \in 0 .. node[id].numNbrs - 1 :
                  <<id, i>> \notin nodeCall.wrote =>
                      /\ node[id].nx[i] = pre[id].nx[i]
                      /\ node[id].ny[i] = pre[id].ny[i]
                      /\ node[id].nz[i] = pre[id].nz[i]

\* The same statement for the segments whose two end nodes both hold the arm
\* (holds in the model; the claim fails only on the one-sided segments).
C15_ReciprocalArmsOnly ==
    (RecalcCall /\ nodeCall.wrote # {}
       /\ FirstArmTo(nodeCall.pre[nodeCall.node2],
                     nodeCall.pre[nodeCall.node1].myTag) >= 0)
        => C15_WritesBothArmsInRange

(***************************************************************************)
(* Ownership over the cycles (checked under SpecCycle).                    *)
(***************************************************************************)
\* thisDomain owns the segment to a node of otherDomain at the cycle cyc.
Owns(cyc, opClass, thisDomain, otherDomain) ==
    DomainOwnsSeg(cyc, opClass, thisDomain, Tag(otherDomain, 0)) = Returned(1)

\* One step of the cycle counter changes the owner for every pair of
\* distinct domains and every valid class.
OwnerChanges ==
    cycle' # cycle =>
        \A opClass \in ValidOpClasses, d1 \in OwnDomains, d2 \in OwnDomains :
            d1 # d2 => (Owns(cycle', opClass, d1, d2) <=> ~Owns(cycle, opClass, d1, d2))

\* C16: with the cycle counter advancing by one per step, for every pair of
\* distinct domains and every valid opClass the domain for which
\* DomainOwnsSeg returns 1 changes at every step, and each domain of the
\* pair owns the segment infinitely often.
C16_OwnerAlternatesForEver ==
    /\ [][OwnerChanges]_vars
    /\ \A opClass \in ValidOpClasses, d1 \in OwnDomains, d2 \in OwnDomains :
          d1 # d2 => []<>Owns(cycle, opClass, d1, d2)

\* The higher domain owned the collision segment to domain 2 at cycle 1 and, the
\* counter having advanced to 2, does not own it now.
C16_Witness ==
    /\ ownCall.called
    /\ ownCall.opClass = OPCLASS_COLLISION
    /\ ownCall.thisDomain = MaxDomain
    /\ ownCall.endTag.domainID = 2
    /\ ownCall.cycle = 1
    /\ ownCall.res = Returned(1)
    /\ cycle = 2
    /\ ~Owns(cycle, OPCLASS_COLLISION, MaxDomain, 2)
    /\ Owns(cycle, OPCLASS_COLLISION, 2, MaxDomain)

(***************************************************************************)
(* Count and capacity of the operation list (checked under SpecLog).       *)
(***************************************************************************)
\* 0 <= OpCount <= OpListLen, and OpListLen is a positive multiple of
\* OpBlock_Count, in the list L.
ListInBounds(L) ==
    /\ 0 <= L.OpCount
    /\ L.OpCount <= L.OpListLen
    /\ L.OpListLen > 0
    /\ L.OpListLen % OpBlock_Count = 0
    /\ DOMAIN L.opList = 0 .. L.OpListLen - 1

\* What one call does to the capacity, and where AddOp stores its entry.
ListStep ==
    /\ OpListLen' >= OpListLen
    /\ heapCall'.fn = "ClearOpList" => OpListLen' = OpListLen /\ OpCount' = 0
    /\ heapCall'.fn = "ExtendOpList" => OpListLen' = OpListLen + OpBlock_Count
    /\ heapCall'.fn = "AddOp" =>
          /\ OpListLen' = IF OpCount = OpListLen
                          THEN OpListLen + OpBlock_Count
                          ELSE OpListLen
          /\ OpCount' = OpCount + 1
          /\ OpCount < OpListLen'
          /\ OpCount \in DOMAIN opList'
          /\ opList'[OpCount] = appended'[Len(appended')]

\* C17: in every state reached from InitOpList by AddOp, ExtendOpList and
\* ClearOpList, 0 <= OpCount <= OpListLen and OpListLen is a positive
\* multiple of OpBlock_Count; OpListLen never decreases: ClearOpList leaves
\* it as it is, AddOp raises it by OpBlock_Count exactly when OpCount =
\* OpListLen; every AddOp stores its entry at an index below OpListLen.
C17_CountWithinCapacity ==
    [][ListInBounds(HomeLog) /\ ListInBounds(HomeLog)' /\ ListStep]_vars

\* An AddOp on a full list of one block: the list has grown to two blocks
\* and the entry is at index OpBlock_Count; the list had been full, cleared
\* and filled again before.
C17_Witness ==
    /\ heapCall.fn = "AddOp"
    /\ Use("realloc", "allocated") \in heapCall.uses
    /\ cleared
    /\ OpListLen = 2 * OpBlock_Count
    /\ OpCount = OpBlock_Count + 1
    /\ opList[OpBlock_Count] = appended[Len(appended)]

====
